---- MODULE Spec2Model ----
(***************************************************************************)
(* A model of the job-market scraper (src/scraper.py) and of the data      *)
(* processor (src/data_processor.py).                                      *)
(*                                                                         *)
(* Python strings are sequences of one-character strings, so that strip(), *)
(* lower(), len(), string comparison and the regular-expression search are *)
(* computed as the code computes them.                                     *)
(*                                                                         *)
(* Five specifications share the variables:                                *)
(*   SpecSkills  extract_skills on one description                         *)
(*   SpecProc    data_processor.main on one raw table                      *)
(*   SpecCard    get_job_info on one job card                              *)
(*   SpecDesc    extract_description on one link                           *)
(*   SpecScrape  scraper.main, calling the two functions above             *)
(***************************************************************************)
EXTENDS Integers, Sequences, FiniteSets, TLC

VARIABLES
    \* scraper.main
    pc, page, job_cards, i, job_data, all_jobs, trace, raw_csv, stop,
    \* extract_description
    d_pc, d_link, d_k, d_seen, d_result, d_raised,
    \* get_job_info
    c_pc, c_card, c_out,
    \* extract_skills
    s_pc, s_text, s_skills,
    \* data_processor.main
    p_pc, df, df_clean, processed_csv

mainVars == <<pc, page, job_cards, i, job_data, all_jobs, trace, raw_csv, stop>>
descVars == <<d_pc, d_link, d_k, d_seen, d_result, d_raised>>
cardVars == <<c_pc, c_card, c_out>>
skillVars == <<s_pc, s_text, s_skills>>
procVars == <<p_pc, df, df_clean, processed_csv>>
vars == <<mainVars, descVars, cardVars, skillVars, procVars>>

----------------------------------------------------------------------------
(* Bounds of the model.                                                    *)

\* The longest description of SpecSkills, in pieces of Pieces.
MaxPieces == 2
\* The most rows of a raw table of SpecProc.
MaxRows == 2
\* The most job cards the result pages of one scrape run show in total.
MaxJobs == 3
\* The most whitespace characters on either side of a text a page yields.
MaxPad == 1

----------------------------------------------------------------------------
(* Strings.                                                                *)

UpperLetters ==
    <<"A","B","C","D","E","F","G","H","I","J","K","L","M",
      "N","O","P","Q","R","S","T","U","V","W","X","Y","Z">>
LowerLetters ==
    <<"a","b","c","d","e","f","g","h","i","j","k","l","m",
      "n","o","p","q","r","s","t","u","v","w","x","y","z">>
Digits == <<"0","1","2","3","4","5","6","7","8","9">>

\* The characters of the model in code-point order: what sorted() and the
\* comparison of str compare by.
CodePointOrder ==
    <<" ", "+", "-", ".", "/">> \o Digits \o UpperLetters
        \o <<"\\", "_">> \o LowerLetters

Range(s) == { s[n] : n \in DOMAIN s }

ord(c) == CHOOSE n \in DOMAIN CodePointOrder : CodePointOrder[n] = c

\* str.isspace of one character.
IsSpace(c) == c = " "

\* What the regular expression's \w matches.
IsWordChar(c) == c \in Range(UpperLetters) \cup Range(LowerLetters) \cup Range(Digits) \cup {"_"}

\* str.lower of one character.
LowerChar(c) ==
    IF c \in Range(UpperLetters)
    THEN LowerLetters[CHOOSE n \in DOMAIN UpperLetters : UpperLetters[n] = c]
    ELSE c

\* str.lower
lower(s) == [n \in DOMAIN s |-> LowerChar(s[n])]

RECURSIVE lstrip(_)
lstrip(s) == IF s # <<>> /\ IsSpace(Head(s)) THEN lstrip(Tail(s)) ELSE s

RECURSIVE rstrip(_)
rstrip(s) ==
    IF s # <<>> /\ IsSpace(s[Len(s)]) THEN rstrip(SubSeq(s, 1, Len(s) - 1)) ELSE s

\* str.strip
strip(s) == rstrip(lstrip(s))

\* s < t for two str: lexicographic by code point.
RECURSIVE StrLess(_, _)
StrLess(s, t) ==
    IF t = <<>> THEN FALSE
    ELSE IF s = <<>> THEN TRUE
    ELSE IF Head(s) # Head(t) THEN ord(Head(s)) < ord(Head(t))
    ELSE StrLess(Tail(s), Tail(t))

\* n copies of the character c.
Rep(c, n) == [k \in 1..n |-> c]

\* The sentinels of the scraper and of the processor.
NA ==
    <<"N","/","A">>
DescriptionNotFound ==
    <<"D","e","s","c","r","i","p","t","i","o","n"," ","n","o","t"," ","f","o","u","n","d",".">>
ErrorLoadingDescription ==
    <<"E","r","r","o","r"," ","l","o","a","d","i","n","g"," ","d","e","s","c","r","i","p","t","i","o","n">>

\* The float NaN pandas holds in a missing cell: the one value of the model
\* that is not a str (no str has an element of more than one character).
NaN == <<"float:nan">>

\* isinstance(v, str)
IsStr(v) == v # NaN

----------------------------------------------------------------------------
(* data_processor.py: the skill vocabulary and extract_skills.             *)

\* 'c\+\+' is written in a plain (non-raw) literal: \+ is no escape sequence
\* of Python, so the backslashes stay and the term has five characters.
SKILLS_LIST ==
    << <<"p","y","t","h","o","n">>,
       <<"r">>,
       <<"s","q","l">>,
       <<"j","a","v","a">>,
       <<"c","\\","+","\\","+">>,
       <<"s","c","a","l","a">>,
       <<"j","u","l","i","a">>,
       <<"p","a","n","d","a","s">>,
       <<"n","u","m","p","y">>,
       <<"s","c","i","p","y">>,
       <<"m","a","t","p","l","o","t","l","i","b">>,
       <<"s","e","a","b","o","r","n">>,
       <<"p","l","o","t","l","y">>,
       <<"s","c","i","k","i","t","-","l","e","a","r","n">>,
       <<"s","k","l","e","a","r","n">>,
       <<"t","e","n","s","o","r","f","l","o","w">>,
       <<"k","e","r","a","s">>,
       <<"p","y","t","o","r","c","h">>,
       <<"t","o","r","c","h">>,
       <<"s","p","a","r","k">>,
       <<"p","y","s","p","a","r","k">>,
       <<"h","a","d","o","o","p">>,
       <<"m","a","p","r","e","d","u","c","e">>,
       <<"h","i","v","e">>,
       <<"a","w","s">>,
       <<"a","z","u","r","e">>,
       <<"g","c","p">>,
       <<"g","o","o","g","l","e"," ","c","l","o","u","d">>,
       <<"s","3">>,
       <<"e","c","2">>,
       <<"l","a","m","b","d","a">>,
       <<"d","o","c","k","e","r">>,
       <<"k","u","b","e","r","n","e","t","e","s">>,
       <<"c","o","n","t","a","i","n","e","r">>,
       <<"g","i","t">>,
       <<"g","i","t","h","u","b">>,
       <<"g","i","t","l","a","b">>,
       <<"t","a","b","l","e","a","u">>,
       <<"p","o","w","e","r"," ","b","i">>,
       <<"p","o","w","e","r","b","i">>,
       <<"l","o","o","k","e","r">>,
       <<"s","u","p","e","r","s","e","t">>,
       <<"e","x","c","e","l">>,
       <<"s","t","a","t","i","s","t","i","c","s">>,
       <<"m","a","c","h","i","n","e"," ","l","e","a","r","n","i","n","g">>,
       <<"d","e","e","p"," ","l","e","a","r","n","i","n","g">>,
       <<"n","l","p">>,
       <<"n","a","t","u","r","a","l"," ","l","a","n","g","u","a","g","e"," ","p","r","o","c","e","s","s","i","n","g">>,
       <<"c","o","m","p","u","t","e","r"," ","v","i","s","i","o","n">>,
       <<"c","v">>,
       <<"e","t","l">>,
       <<"d","a","t","a"," ","w","a","r","e","h","o","u","s","i","n","g">>,
       <<"d","a","t","a"," ","m","o","d","e","l","i","n","g">>,
       <<"d","a","t","a"," ","m","i","n","i","n","g">>,
       <<"r","e","g","r","e","s","s","i","o","n">>,
       <<"c","l","a","s","s","i","f","i","c","a","t","i","o","n">>,
       <<"c","l","u","s","t","e","r","i","n","g">>,
       <<"n","e","u","r","a","l"," ","n","e","t","w","o","r","k">>,
       <<"c","n","n">>,
       <<"r","n","n">>,
       <<"b","i","g"," ","d","a","t","a">>,
       <<"d","i","s","t","r","i","b","u","t","e","d"," ","s","y","s","t","e","m">>,
       <<"a","p","i">>,
       <<"r","e","s","t">>,
       <<"j","s","o","n">>,
       <<"x","m","l">> >>

SKILL_MAPPING ==
    { <<<<"s","k","l","e","a","r","n">>,
        <<"s","c","i","k","i","t","-","l","e","a","r","n">>>>,
      <<<<"t","o","r","c","h">>,
        <<"p","y","t","o","r","c","h">>>>,
      <<<<"p","o","w","e","r","b","i">>,
        <<"p","o","w","e","r"," ","b","i">>>>,
      <<<<"g","o","o","g","l","e"," ","c","l","o","u","d">>,
        <<"g","c","p">>>>,
      <<<<"n","a","t","u","r","a","l"," ","l","a","n","g","u","a","g","e"," ","p","r","o","c","e","s","s","i","n","g">>,
        <<"n","l","p">>>>,
      <<<<"c","o","m","p","u","t","e","r"," ","v","i","s","i","o","n">>,
        <<"c","v">>>>,
      <<<<"d","e","e","p"," ","l","e","a","r","n","i","n","g">>,
        <<"m","a","c","h","i","n","e"," ","l","e","a","r","n","i","n","g">>>>,
      <<<<"n","e","u","r","a","l"," ","n","e","t","w","o","r","k">>,
        <<"m","a","c","h","i","n","e"," ","l","e","a","r","n","i","n","g">>>> }

\* SKILL_MAPPING.get(skill, skill)
Canonical(skill) ==
    IF \E m \in SKILL_MAPPING : m[1] = skill
    THEN (CHOOSE m \in SKILL_MAPPING : m[1] = skill)[2]
    ELSE skill

\* The characters re.escape puts a backslash before (those of them the model has).
ReSpecialChars == {" ", "+", "-", ".", "\\"}

\* re.escape
RECURSIVE re_escape(_)
re_escape(s) ==
    IF s = <<>> THEN <<>>
    ELSE (IF Head(s) \in ReSpecialChars THEN <<"\\", Head(s)>> ELSE <<Head(s)>>)
             \o re_escape(Tail(s))

\* r'\b' + re.escape(skill) + r'\b'
SkillPattern(skill) == <<"\\", "b">> \o re_escape(skill) \o <<"\\", "b">>

\* The pattern as the regular-expression parser reads it: \b is the
\* word-boundary assertion, a backslash before any other character makes it
\* a literal, and so is any other character.
RECURSIVE re_parse(_)
re_parse(p) ==
    IF p = <<>> THEN <<>>
    ELSE IF Head(p) = "\\" /\ Len(p) >= 2
         THEN (IF p[2] = "b" THEN <<[kind |-> "boundary"]>>
                             ELSE <<[kind |-> "literal", char |-> p[2]]>>)
                  \o re_parse(SubSeq(p, 3, Len(p)))
         ELSE <<[kind |-> "literal", char |-> Head(p)]>> \o re_parse(Tail(p))

\* \b before the character at position n of s (n = Len(s) + 1: at the end):
\* exactly one of the two sides is a word character.
AtWordBoundary(s, n) ==
    LET before == n > 1 /\ IsWordChar(s[n - 1])
        after == n <= Len(s) /\ IsWordChar(s[n])
    IN before # after

RECURSIVE re_match_at(_, _, _)
re_match_at(toks, s, n) ==
    IF toks = <<>> THEN TRUE
    ELSE IF Head(toks).kind = "boundary"
         THEN AtWordBoundary(s, n) /\ re_match_at(Tail(toks), s, n)
         ELSE /\ n <= Len(s)
              /\ s[n] = Head(toks).char
              /\ re_match_at(Tail(toks), s, n + 1)

\* re.search(pattern, s) is not None, for the parsed pattern
re_search(toks, s) == \E n \in 1..(Len(s) + 1) : re_match_at(toks, s, n)

\* sorted(list(S)) of a set of str
RECURSIVE sorted(_)
sorted(S) ==
    IF S = {} THEN <<>>
    ELSE LET least == CHOOSE x \in S : \A y \in S \ {x} : StrLess(x, y)
         IN <<least>> \o sorted(S \ {least})

\* The pattern of each vocabulary term (line 45), parsed; the re module keeps
\* the compiled patterns from one call to the next.
CompiledPatterns == [k \in DOMAIN SKILLS_LIST |-> re_parse(SkillPattern(SKILLS_LIST[k]))]

\* The three placeholder descriptions (lines 38 and 58).
invalid_descriptions == {NA, DescriptionNotFound, ErrorLoadingDescription}

\* extract_skills that returns the skills in vocabulary order, duplicates kept.
RECURSIVE SkillsInScanOrder(_, _)
SkillsInScanOrder(description_lower, k) ==
    IF k > Len(SKILLS_LIST) THEN <<>>
    ELSE (IF re_search(CompiledPatterns[k], description_lower)
          THEN <<Canonical(SKILLS_LIST[k])>> ELSE <<>>)
             \o SkillsInScanOrder(description_lower, k + 1)

extract_skills_Unsorted(description) ==
    IF ~IsStr(description) \/ description \in invalid_descriptions THEN <<>>
    ELSE SkillsInScanOrder(lower(description), 1)

extract_skills(description) ==
    IF ~IsStr(description) \/ description \in invalid_descriptions THEN <<>>
    ELSE LET description_lower == lower(description)
             found_skills ==
                 { Canonical(SKILLS_LIST[n]) : n \in
                     { k \in DOMAIN SKILLS_LIST :
                         re_search(CompiledPatterns[k], description_lower) } }
         IN sorted(found_skills)

----------------------------------------------------------------------------
(* data_processor.py: clean_data and main.                                 *)

\* Series.astype(str) of one cell: str(nan) is 'nan'.
astype_str(v) == IF IsStr(v) THEN v ELSE <<"n","a","n">>

\* DataFrame.dropna(subset=['title', 'company', 'description'])
dropna(table) ==
    LET Complete(row) ==
            IsStr(row.title) /\ IsStr(row.company) /\ IsStr(row.description)
    IN SelectSeq(table, Complete)

\* df[~df['description'].isin(invalid_descriptions)]
DropPlaceholders(table) ==
    LET Real(row) == row.description \notin invalid_descriptions
    IN SelectSeq(table, Real)

\* The loop of lines 62-65 over text_columns: .astype(str).str.strip()
StripTextColumns(table) ==
    [n \in DOMAIN table |->
        [table[n] EXCEPT !.title = strip(astype_str(@)),
                         !.company = strip(astype_str(@)),
                         !.location = strip(astype_str(@)),
                         !.description = strip(astype_str(@))]]

clean_data(table) == StripTextColumns(DropPlaceholders(dropna(table)))

\* df_clean['skills'] = df_clean['description'].apply(extract_skills)
AddSkills(table) ==
    [n \in DOMAIN table |->
        table[n] @@ [skills |-> extract_skills(table[n].description)]]

\* df_clean['skill_count'] = df_clean['skills'].apply(len)
AddSkillCount(table) ==
    [n \in DOMAIN table |-> table[n] @@ [skill_count |-> Len(table[n].skills)]]

\* A raw row the scraper could have written, and the variants of it that
\* the cleaning policy tells apart.
GoodRow ==
    [title |-> <<" ","D","a","t","a"," ","S","c","i","e","n","t","i","s","t">>, company |-> <<"A","c","m","e"," ">>, location |-> <<"N","Y","C">>,
     link |-> <<"h","t","t","p",":","/","/","x","/","1">>, date_posted |-> NaN,
     description |-> <<" ","S","Q","L"," ","J","a","v","a"," ","s","q","l"," ">>]

RawRows ==
    { GoodRow,
      [GoodRow EXCEPT !.title = NaN],
      [GoodRow EXCEPT !.company = NaN],
      [GoodRow EXCEPT !.description = NaN],
      [GoodRow EXCEPT !.location = NaN],
      [GoodRow EXCEPT !.description = NA],
      [GoodRow EXCEPT !.description = DescriptionNotFound],
      [GoodRow EXCEPT !.description = ErrorLoadingDescription],
      [GoodRow EXCEPT !.description = <<" ">> \o NA],
      [GoodRow EXCEPT !.description = <<>>],
      [GoodRow EXCEPT !.description = <<"t","o","r","c","h"," ","p","y","t","o","r","c","h">>] }

RECURSIVE SeqsUpTo(_, _)
SeqsUpTo(S, n) ==
    IF n = 0 THEN {<<>>}
    ELSE LET shorter == SeqsUpTo(S, n - 1)
         IN shorter \cup { Append(s, x) : s \in shorter, x \in S }

RawTables == SeqsUpTo(RawRows, MaxRows)

NoTable == <<>>

ProcIdle ==
    /\ p_pc = "idle"
    /\ df = NoTable
    /\ df_clean = NoTable
    /\ processed_csv = NoTable

\* The state of data_processor.main once read_csv (line 72) has returned.
ProcInit ==
    /\ p_pc = "loaded"
    /\ df \in RawTables
    /\ df_clean = NoTable
    /\ processed_csv = NoTable

\* line 80
ProcClean ==
    /\ p_pc = "loaded"
    /\ df_clean' = clean_data(df)
    /\ p_pc' = "cleaned"
    /\ UNCHANGED <<df, processed_csv>>

\* line 85
ProcExtractSkills ==
    /\ p_pc = "cleaned"
    /\ df_clean' = AddSkills(df_clean)
    /\ p_pc' = "skills"
    /\ UNCHANGED <<df, processed_csv>>

\* line 96
ProcSkillCount ==
    /\ p_pc = "skills"
    /\ df_clean' = AddSkillCount(df_clean)
    /\ p_pc' = "counted"
    /\ UNCHANGED <<df, processed_csv>>

\* line 100
ProcSave ==
    /\ p_pc = "counted"
    /\ processed_csv' = df_clean
    /\ p_pc' = "saved"
    /\ UNCHANGED <<df, df_clean>>

----------------------------------------------------------------------------
(* extract_skills on one description.                                      *)

\* What the descriptions of SpecSkills are put together from: vocabulary
\* terms, parts of terms, an upper-case letter, separators and a letter that
\* makes a longer word.
Pieces ==
    { <<"r">>, <<"R">>, <<"s","q","l">>, <<"c","\\","+","\\","+">>, <<"c","+","+">>,
      <<"p","y">>, <<"t","o","r","c","h">>,
      <<"g","i","t">>, <<"h","u","b">>, <<" ">>, <<"x">>, <<"-">> }

RECURSIVE Concat(_)
Concat(ss) == IF ss = <<>> THEN <<>> ELSE Head(ss) \o Concat(Tail(ss))

Texts == { Concat(ps) : ps \in SeqsUpTo(Pieces, MaxPieces) }

SkillInputs == Texts \cup invalid_descriptions \cup {NaN}

SkillIdle ==
    /\ s_pc = "idle"
    /\ s_text = <<>>
    /\ s_skills = <<>>

SkillInit ==
    /\ s_pc = "call"
    /\ s_text \in SkillInputs
    /\ s_skills = <<>>

SkillExtract ==
    /\ s_pc = "call"
    /\ s_skills' = extract_skills(s_text)
    /\ s_pc' = "returned"
    /\ UNCHANGED s_text

----------------------------------------------------------------------------
(* scraper.py: get_job_info.                                               *)

\* line 29
base_url ==
    <<"h","t","t","p","s",":","/","/","w","w","w",".","i","n","d","e","e","d",".","c","o","m">>

\* lines 30-36
InitialJobData ==
    [title |-> NA, company |-> NA, location |-> NA, link |-> NA, date_posted |-> NA]

\* What a job card is to get_job_info: what each of its four lookups meets.
\*   title:   "raise" (job_card.find raises: the card is no parsed tag),
\*            "no_h2", "no_a", "no_href", or "found" with the text and the
\*            href of the link element;
\*   company, location, date: "raise", or "list" with the texts of the
\*            elements find_all returns, in document order.
\* pos is the card's place on the site, <<page index, position on the page>>;
\* the code never reads it.

\* A failing statement's exception, when no handler stands around it.
except_Propagate(r) == r

\* except Exception as e: logging.warning(...)  (lines 46, 54, 62, 70): the
\* exception ends here and job_data keeps what was assigned before it.
except_Exception(r) == [data |-> r.data, exc |-> FALSE]

\* lines 40-45
TitleLinkBlock(card, data) ==
    CASE card.title.out = "raise" -> [data |-> data, exc |-> TRUE]
      [] card.title.out = "found" ->
            [data |-> [data EXCEPT !.title = strip(card.title.text),
                                   !.link = base_url \o card.title.href],
             exc |-> FALSE]
      [] OTHER -> [data |-> data, exc |-> FALSE]

\* lines 51-53, 59-61 and 67-69: find_all, then the first element's text.
FirstTextBlock(lookup, field, data) ==
    CASE lookup.out = "raise" -> [data |-> data, exc |-> TRUE]
      [] lookup.out = "list" /\ lookup.elems # <<>> ->
            [data |-> [data EXCEPT ![field] = strip(lookup.elems[1])], exc |-> FALSE]
      [] OTHER -> [data |-> data, exc |-> FALSE]

\* [data, exc]: the record returned, and whether an exception left the call.
get_job_info(job_card) ==
    LET r1 == except_Exception(TitleLinkBlock(job_card, InitialJobData))
        r2 == IF r1.exc THEN r1
              ELSE except_Exception(FirstTextBlock(job_card.company, "company", r1.data))
        r3 == IF r2.exc THEN r2
              ELSE except_Exception(FirstTextBlock(job_card.location, "location", r2.data))
        r4 == IF r3.exc THEN r3
              ELSE except_Exception(FirstTextBlock(job_card.date, "date_posted", r3.data))
    IN r4

\* A text with up to MaxPad blanks on either side.
Padded(core) ==
    { Rep(" ", a) \o core \o Rep(" ", b) : a \in 0..MaxPad, b \in 0..MaxPad }

TitleText ==
    <<"D","a","t","a"," ","S","c","i","e","n","t","i","s","t">>
CompanyText ==
    <<"A","c","m","e">>
OtherText ==
    <<"O","t","h","e","r">>
LocationText ==
    <<"N","Y","C">>
DateText ==
    <<"T","o","d","a","y">>

\* The href of the card at pos: one per card of the site.
HrefOf(pos) == <<"/","v","i","e","w","j","o","b","?","j","k","=">> \o <<Digits[pos[1] + 1], Digits[pos[2] + 1]>>

TitleLookups(pos) ==
    { [out |-> o] : o \in {"raise", "no_h2", "no_a", "no_href"} }
        \cup { [out |-> "found", text |-> s, href |-> HrefOf(pos)] : s \in Padded(TitleText) }

ListLookups(core) ==
    { [out |-> "raise"], [out |-> "list", elems |-> <<>>],
      [out |-> "list", elems |-> <<core, OtherText>>] }
        \cup { [out |-> "list", elems |-> <<s>>] : s \in Padded(core) }

Cards(pos) ==
    { [pos |-> pos, title |-> a, company |-> b, location |-> c, date |-> d] :
        a \in TitleLookups(pos), b \in ListLookups(CompanyText),
        c \in ListLookups(LocationText), d \in ListLookups(DateText) }

NoCard == <<>>
NoData == <<>>

CardIdle ==
    /\ c_pc = "idle"
    /\ c_card = NoCard
    /\ c_out = NoData

CardInit ==
    /\ c_pc = "call"
    /\ c_card \in Cards(<<0, 1>>)
    /\ c_out = NoData

\* lines 27-73
CardGetJobInfo ==
    /\ c_pc = "call"
    /\ c_out' = get_job_info(c_card)
    /\ c_pc' = IF c_out'.exc THEN "raised" ELSE "returned"
    /\ UNCHANGED c_card

----------------------------------------------------------------------------
(* scraper.py: extract_description.                                        *)

\* lines 84-90
selectors ==
    << [by |-> "id", selector |-> "jobDescriptionText"],
       [by |-> "class name", selector |-> "jobsearch-jobDescriptionText"],
       [by |-> "class name", selector |-> "job-description"],
       [by |-> "xpath", selector |-> "//div[contains(@class, 'description')]"],
       [by |-> "tag name", selector |-> "body"] >>

\* line 97: the length a description must exceed.
MinDescriptionLength == 50

\* What one strategy meets on the detail page:
\*   "timeout"       wait.until raises TimeoutException after its 15 s;
\*   "locate_error"  wait.until raises another exception;
\*   "text_error"    the element is located and reading .text raises;
\*   "element"       the element is located and .text is the text given.
ElementTexts ==
    LET Blanked(core) == { core, <<" ">> \o core \o <<" ">> }
    IN {<<>>, <<" ">>} \cup Blanked(Rep("x", MinDescriptionLength))
           \cup Blanked(Rep("x", MinDescriptionLength + 1))

StrategyOutcomes ==
    { [kind |-> k] : k \in {"timeout", "locate_error", "text_error"} }
        \cup { [kind |-> "element", text |-> s] : s \in ElementTexts }

NoOutcome == [kind |-> "none"]

\* line 97 with >= for >.
IsValidDescription_AtLeast(description) ==
    description # <<>> /\ Len(description) >= MinDescriptionLength

\* line 97: description and len(description) > 50
IsValidDescription(description) ==
    description # <<>> /\ Len(description) > MinDescriptionLength

\* The handler of line 99, were it to catch the wait's TimeoutException only.
InnerExcept_TimeoutOnly(kind) == IF kind = "timeout" THEN "continue" ELSE "propagate"

\* lines 99-100: except Exception: continue
InnerExcept(kind) == "continue"

\* lines 103-105: except Exception as e: ... return "Error loading description"
OuterExcept == [result |-> ErrorLoadingDescription, raised |-> FALSE]

\* line 92: for by, selector in selectors
SelectorAt(k) == selectors[k]

\* What has been raised in the call so far: "none", "timeout" (the wait's
\* own signal that nothing was located), "unexpected" (any other exception
\* of an extraction step) or "navigation" (driver.get raised).
RaisedSoFar(before, kind) ==
    IF kind = "timeout" /\ before # "unexpected" THEN "timeout" ELSE "unexpected"

NoLink == <<>>

DescIdle ==
    /\ d_pc = "idle"
    /\ d_link = NoLink
    /\ d_k = 0
    /\ d_seen = [tried |-> <<>>, last |-> NoOutcome, exc |-> "none"]
    /\ d_result = <<>>
    /\ d_raised = FALSE

\* The call extract_description(driver, job_link).
DescEnter(job_link) ==
    /\ d_pc' = "call"
    /\ d_link' = job_link
    /\ d_k' = 0
    /\ d_seen' = [tried |-> <<>>, last |-> NoOutcome, exc |-> "none"]
    /\ d_result' = <<>>
    /\ d_raised' = FALSE

DescReturn(result) ==
    /\ d_pc' = "returned"
    /\ d_result' = result
    /\ d_raised' = FALSE

DescHandled(handler) ==
    /\ d_pc' = IF handler.raised THEN "raised" ELSE "returned"
    /\ d_result' = handler.result
    /\ d_raised' = handler.raised

\* The test of line 77, were it never to hold.
IsSentinelLink_Never(job_link) == FALSE

\* line 77: if job_link == "N/A"
IsSentinelLink(job_link) == job_link = NA

\* lines 75-78: the function is entered; the sentinel link returns the
\* sentinel at once
DescCheckLink ==
    /\ d_pc = "call"
    /\ trace' = Append(trace, [ev |-> "call", link |-> d_link])
    /\ IF IsSentinelLink(d_link)
       THEN DescReturn(NA)
       ELSE d_pc' = "get" /\ UNCHANGED <<d_result, d_raised>>
    /\ UNCHANGED <<d_link, d_k, d_seen>>

\* line 81: driver.get(job_link), which returns or raises
DescGet ==
    /\ d_pc = "get"
    /\ trace' = Append(trace, [ev |-> "get", what |-> "detail", link |-> d_link])
    /\ \E loaded \in BOOLEAN :
          IF loaded
          THEN /\ d_pc' = "select"
               /\ d_k' = 1
               /\ UNCHANGED <<d_seen, d_result, d_raised>>
          ELSE /\ DescHandled(OuterExcept)
               /\ d_seen' = [d_seen EXCEPT !.exc = "navigation"]
               /\ UNCHANGED d_k
    /\ UNCHANGED d_link

\* lines 92-100: one turn of the loop over the selectors
DescSelect ==
    /\ d_pc = "select"
    /\ d_k <= Len(selectors)
    /\ \E o \in StrategyOutcomes :
          LET seen == [d_seen EXCEPT !.tried = Append(@, SelectorAt(d_k)), !.last = o]
          IN IF o.kind = "element"
             THEN LET description == strip(o.text)
                  IN /\ d_seen' = seen
                     /\ IF IsValidDescription(description)
                        THEN DescReturn(description) /\ UNCHANGED d_k
                        ELSE d_k' = d_k + 1 /\ UNCHANGED <<d_pc, d_result, d_raised>>
             ELSE /\ d_seen' = [seen EXCEPT !.exc = RaisedSoFar(@, o.kind)]
                  /\ IF InnerExcept(o.kind) = "continue"
                     THEN d_k' = d_k + 1 /\ UNCHANGED <<d_pc, d_result, d_raised>>
                     ELSE DescHandled(OuterExcept) /\ UNCHANGED d_k
    /\ UNCHANGED <<d_link, trace>>

\* line 102
DescNotFound ==
    /\ d_pc = "select"
    /\ d_k > Len(selectors)
    /\ DescReturn(DescriptionNotFound)
    /\ UNCHANGED <<d_link, d_k, d_seen, trace>>

\* The links extract_description is called with on its own.
DescLinks == {NA, base_url \o HrefOf(<<0, 1>>)}

----------------------------------------------------------------------------
(* scraper.py: main.                                                       *)

\* line 141
max_pages == 3

\* line 154: start = page * 10
PageSize == 10

NoFile == <<"no file">>

\* The events of a run, in order (a history the code does not keep):
\*   [ev "get", what "results", page, start]  driver.get(url), line 161
\*   [ev "parsed", page, n]                   n job cards found, line 175
\*   [ev "card", pos]                         get_job_info(card), line 184
\*   [ev "call", link]                        extract_description entered, line 75
\*   [ev "get", what "detail", link]          driver.get(job_link), line 81
\*   [ev "append", pos]                       all_jobs.append, line 193
\*   [ev "except"]                            the handler of line 206
\*   [ev "quit"]                              driver.quit(), line 210
\*   [ev "save"]                              df.to_csv, line 216

\* The cards a results page can show: with a link or without one, each with
\* its own href, the k-th at position k.
ScrapeCards(pos) ==
    { [pos |-> pos,
       title |-> a,
       company |-> [out |-> "list", elems |-> <<CompanyText>>],
       location |-> [out |-> "list", elems |-> <<LocationText>>],
       date |-> [out |-> "list", elems |-> <<>>]] :
        a \in { [out |-> "no_h2"],
                [out |-> "found", text |-> TitleText, href |-> HrefOf(pos)] } }

RECURSIVE CardLists(_, _)
CardLists(p, n) ==
    IF n = 0 THEN {<<>>}
    ELSE { Append(cs, c) : cs \in CardLists(p, n - 1), c \in ScrapeCards(<<p, n>>) }

\* The loop of line 183, were it to walk the cards from the last to the first.
CardAt_Reversed(cards, k) == cards[Len(cards) + 1 - k]

\* line 183: for i, card in enumerate(job_cards)
CardAt(cards, k) == cards[k]

\* The finally clause, were driver.quit() in the except clause instead.
QuitsOnExit_ErrorOnly(caught) == caught

\* lines 208-210: finally runs driver.quit() however the try block ended.
QuitsOnExit(caught) == TRUE

\* The break of lines 171 and 181, were it a continue.
AfterStop_NextPage(p) == IF p + 1 < max_pages THEN "page" ELSE "finally"

\* lines 171 and 181: break leaves the loop over the pages.
AfterStop(p) == "finally"

MainIdle ==
    /\ pc = "idle"
    /\ page = 0
    /\ job_cards = <<>>
    /\ i = 0
    /\ job_data = NoData
    /\ all_jobs = <<>>
    /\ trace = <<>>
    /\ raw_csv = NoFile
    /\ stop = "none"

\* The state of main once setup_driver (line 150) has returned the session.
MainInit ==
    /\ pc = "page"
    /\ page = 0
    /\ job_cards = <<>>
    /\ i = 0
    /\ job_data = NoData
    /\ all_jobs = <<>>
    /\ trace = <<>>
    /\ raw_csv = NoFile
    /\ stop = "none"

\* lines 153-161: the next page's url, and driver.get(url), which returns or raises
MainGetPage ==
    /\ pc = "page"
    /\ page < max_pages
    /\ trace' = Append(trace, [ev |-> "get", what |-> "results", page |-> page,
                               start |-> page * PageSize])
    /\ \E loaded \in BOOLEAN : pc' = IF loaded THEN "wait" ELSE "except"
    /\ UNCHANGED <<page, job_cards, i, job_data, all_jobs, raw_csv, stop, descVars>>

\* lines 164-171: the wait for a job card; any exception of it breaks
MainWait ==
    /\ pc = "wait"
    /\ \E appeared \in BOOLEAN :
          IF appeared
          THEN pc' = "parse" /\ UNCHANGED stop
          ELSE pc' = AfterStop(page) /\ stop' = "timeout"
    /\ page' = IF pc' = "page" THEN page + 1 ELSE page
    /\ UNCHANGED <<job_cards, i, job_data, all_jobs, trace, raw_csv, descVars>>

\* lines 174-181: the page is parsed (which may raise) and its cards found
MainParse ==
    /\ pc = "parse"
    /\ \/ /\ pc' = "except"
          /\ UNCHANGED <<page, job_cards, i, trace, stop>>
       \/ \E n \in 0..(MaxJobs - Len(all_jobs)) : \E cards \in CardLists(page, n) :
             /\ trace' = Append(trace, [ev |-> "parsed", page |-> page, n |-> n])
             /\ IF cards = <<>>
                THEN /\ pc' = AfterStop(page)
                     /\ stop' = "no_cards"
                     /\ page' = IF pc' = "page" THEN page + 1 ELSE page
                     /\ UNCHANGED <<job_cards, i>>
                ELSE /\ pc' = "card"
                     /\ job_cards' = cards
                     /\ i' = 1
                     /\ UNCHANGED <<page, stop>>
    /\ UNCHANGED <<job_data, all_jobs, raw_csv, descVars>>

\* lines 184-190: the card is parsed; with a link its description is
\* fetched, without one the description is the sentinel
MainCard ==
    /\ pc = "card"
    /\ LET card == CardAt(job_cards, i)
           r == get_job_info(card)
       IN /\ trace' = Append(trace, [ev |-> "card", pos |-> card.pos])
          /\ IF r.exc
             THEN pc' = "except" /\ UNCHANGED <<job_data, descVars>>
             ELSE IF r.data.link # NA
                  THEN /\ pc' = "fetch"
                       /\ job_data' = r.data
                       /\ DescEnter(r.data.link)
                  ELSE /\ pc' = "append"
                       /\ job_data' = r.data @@ [description |-> NA]
                       /\ UNCHANGED descVars
    /\ UNCHANGED <<page, job_cards, i, all_jobs, raw_csv, stop>>

\* line 188: extract_description has returned (or raised)
MainFetched ==
    /\ pc = "fetch"
    /\ d_pc \in {"returned", "raised"}
    /\ IF d_raised
       THEN pc' = "except" /\ UNCHANGED job_data
       ELSE pc' = "append" /\ job_data' = job_data @@ [description |-> d_result]
    /\ d_pc' = "idle"
    /\ d_link' = NoLink
    /\ d_k' = 0
    /\ d_seen' = [tried |-> <<>>, last |-> NoOutcome, exc |-> "none"]
    /\ d_result' = <<>>
    /\ d_raised' = FALSE
    /\ UNCHANGED <<page, job_cards, i, all_jobs, trace, raw_csv, stop>>

\* lines 193-204: the listing is appended; then the next card, the next
\* page, or the end of the loop over the pages
MainAppend ==
    /\ pc = "append"
    /\ all_jobs' = Append(all_jobs, job_data)
    /\ trace' = Append(trace, [ev |-> "append", pos |-> CardAt(job_cards, i).pos])
    /\ IF i < Len(job_cards)
       THEN i' = i + 1 /\ pc' = "card" /\ UNCHANGED page
       ELSE /\ page' = page + 1
            /\ pc' = IF page + 1 < max_pages THEN "page" ELSE "finally"
            /\ UNCHANGED i
    /\ UNCHANGED <<job_cards, job_data, raw_csv, stop, descVars>>

\* lines 206-207
MainExcept ==
    /\ pc = "except"
    /\ trace' = Append(trace, [ev |-> "except"])
    /\ stop' = "exception"
    /\ pc' = "finally"
    /\ UNCHANGED <<page, job_cards, i, job_data, all_jobs, raw_csv, descVars>>

\* lines 208-210: driver.quit(), which returns or raises; no handler stands
\* around it, so its exception leaves main
MainFinally ==
    /\ pc = "finally"
    /\ IF QuitsOnExit(stop = "exception")
       THEN /\ trace' = Append(trace, [ev |-> "quit"])
            /\ \E closed \in BOOLEAN : pc' = IF closed THEN "save" ELSE "raised"
       ELSE pc' = "save" /\ UNCHANGED trace
    /\ UNCHANGED <<page, job_cards, i, job_data, all_jobs, raw_csv, stop, descVars>>

\* lines 213-227
MainSave ==
    /\ pc = "save"
    /\ IF all_jobs # <<>>
       THEN raw_csv' = all_jobs /\ trace' = Append(trace, [ev |-> "save"])
       ELSE UNCHANGED <<raw_csv, trace>>
    /\ pc' = "returned"
    /\ UNCHANGED <<page, job_cards, i, job_data, all_jobs, stop, descVars>>

----------------------------------------------------------------------------
(* The specifications.                                                     *)

mainRest == <<pc, page, job_cards, i, job_data, all_jobs, raw_csv, stop>>

SkillNext == SkillExtract /\ UNCHANGED <<mainVars, descVars, cardVars, procVars>>

InitSkills == SkillInit /\ MainIdle /\ DescIdle /\ CardIdle /\ ProcIdle

SpecSkills == InitSkills /\ [][SkillNext]_vars

ProcNext ==
    \/ ProcClean /\ UNCHANGED <<mainVars, descVars, cardVars, skillVars>>
    \/ ProcExtractSkills /\ UNCHANGED <<mainVars, descVars, cardVars, skillVars>>
    \/ ProcSkillCount /\ UNCHANGED <<mainVars, descVars, cardVars, skillVars>>
    \/ ProcSave /\ UNCHANGED <<mainVars, descVars, cardVars, skillVars>>

InitProc == ProcInit /\ MainIdle /\ DescIdle /\ CardIdle /\ SkillIdle

SpecProc == InitProc /\ [][ProcNext]_vars

CardNext == CardGetJobInfo /\ UNCHANGED <<mainVars, descVars, skillVars, procVars>>

InitCard == CardInit /\ MainIdle /\ DescIdle /\ SkillIdle /\ ProcIdle

SpecCard == InitCard /\ [][CardNext]_vars

\* extract_description called on its own with one link.
DescInit ==
    /\ d_pc = "call"
    /\ d_link \in DescLinks
    /\ d_k = 0
    /\ d_seen = [tried |-> <<>>, last |-> NoOutcome, exc |-> "none"]
    /\ d_result = <<>>
    /\ d_raised = FALSE

DescNext ==
    \/ DescCheckLink /\ UNCHANGED <<mainRest, cardVars, skillVars, procVars>>
    \/ DescGet /\ UNCHANGED <<mainRest, cardVars, skillVars, procVars>>
    \/ DescSelect /\ UNCHANGED <<mainRest, cardVars, skillVars, procVars>>
    \/ DescNotFound /\ UNCHANGED <<mainRest, cardVars, skillVars, procVars>>

InitDesc == DescInit /\ MainIdle /\ CardIdle /\ SkillIdle /\ ProcIdle

SpecDesc == InitDesc /\ [][DescNext]_vars

ScrapeNext ==
    \/ MainGetPage /\ UNCHANGED <<cardVars, skillVars, procVars>>
    \/ MainWait /\ UNCHANGED <<cardVars, skillVars, procVars>>
    \/ MainParse /\ UNCHANGED <<cardVars, skillVars, procVars>>
    \/ MainCard /\ UNCHANGED <<cardVars, skillVars, procVars>>
    \/ MainFetched /\ UNCHANGED <<cardVars, skillVars, procVars>>
    \/ MainAppend /\ UNCHANGED <<cardVars, skillVars, procVars>>
    \/ MainExcept /\ UNCHANGED <<cardVars, skillVars, procVars>>
    \/ MainFinally /\ UNCHANGED <<cardVars, skillVars, procVars>>
    \/ MainSave /\ UNCHANGED <<cardVars, skillVars, procVars>>
    \/ DescCheckLink /\ UNCHANGED <<mainRest, cardVars, skillVars, procVars>>
    \/ DescGet /\ UNCHANGED <<mainRest, cardVars, skillVars, procVars>>
    \/ DescSelect /\ UNCHANGED <<mainRest, cardVars, skillVars, procVars>>
    \/ DescNotFound /\ UNCHANGED <<mainRest, cardVars, skillVars, procVars>>

InitScrape == MainInit /\ DescIdle /\ CardIdle /\ SkillIdle /\ ProcIdle

SpecScrape == InitScrape /\ [][ScrapeNext]_vars

\* A scrape run, or extract_description called on its own: the two ways the
\* description fetcher is entered.
InitFetch == InitScrape \/ InitDesc

SpecFetch == InitFetch /\ [][ScrapeNext]_vars

----------------------------------------------------------------------------
(* Properties of data_processor.py.                                        *)

\* s without its leading and trailing blanks, stated over positions.
TrimmedOf(s) ==
    LET inked == { n \in DOMAIN s : s[n] # " " }
    IN IF inked = {} THEN <<>>
       ELSE SubSeq(s, CHOOSE a \in inked : \A b \in inked : a <= b,
                      CHOOSE a \in inked : \A b \in inked : a >= b)

\* term stands in s from position n on.
OccursAt(term, s, n) ==
    /\ n + Len(term) - 1 <= Len(s)
    /\ SubSeq(s, n, n + Len(term) - 1) = term

\* text contains term, whatever the case of its letters.
Contains(term, text) == \E n \in DOMAIN text : OccursAt(term, lower(text), n)

\* text contains term as a standalone word: no letter, digit or underscore
\* stands right before it or right after it.
ContainsStandalone(term, text) ==
    LET s == lower(text)
    IN \E n \in DOMAIN s :
          /\ OccursAt(term, s, n)
          /\ n = 1 \/ ~IsWordChar(s[n - 1])
          /\ n + Len(term) > Len(s) \/ ~IsWordChar(s[n + Len(term)])

\* text contains term, only inside longer words, and no other term of the
\* same canonical form.
ContainsOnlyInsideWords(term, text) ==
    /\ Contains(term, text)
    /\ ~ContainsStandalone(term, text)
    /\ \A k \in DOMAIN SKILLS_LIST :
          SKILLS_LIST[k] # term /\ Canonical(SKILLS_LIST[k]) = Canonical(term)
              => ~Contains(SKILLS_LIST[k], text)

IsValidText(text) == IsStr(text) /\ text \notin invalid_descriptions

WholeWordMatch(term, text, skills) ==
    /\ ContainsStandalone(term, text) => Canonical(term) \in Range(skills)
    /\ ContainsOnlyInsideWords(term, text) => Canonical(term) \notin Range(skills)

\* C5: for every vocabulary term and every valid description, a term that
\* stands in the text as a standalone word has its canonical form in
\* extract_skills(text), and a term that stands only inside longer words (no
\* other term of its canonical form being in the text) has not.
C5_WholeWordMatch ==
    s_pc = "returned" /\ IsValidText(s_text)
        => \A k \in DOMAIN SKILLS_LIST : WholeWordMatch(SKILLS_LIST[k], s_text, s_skills)

\* The same for the terms that begin and end with a letter or a digit: all
\* of the vocabulary but 'c\+\+'.
WholeWordMatchOfWordTerms ==
    s_pc = "returned" /\ IsValidText(s_text)
        => \A k \in DOMAIN SKILLS_LIST :
              LET term == SKILLS_LIST[k]
              IN IsWordChar(term[1]) /\ IsWordChar(term[Len(term)])
                    => WholeWordMatch(term, s_text, s_skills)

\* The rows of the input the cleaning policy keeps.
IsKept(row) ==
    /\ IsStr(row.title) /\ IsStr(row.company) /\ IsStr(row.description)
    /\ row.description \notin invalid_descriptions

\* C6: clean_data drops every record that misses title, company or
\* description and every record whose description is a placeholder, keeps
\* every other record in input order, and no record of its output has,
\* trimmed, a description equal to "N/A", "Description not found." or
\* "Error loading description".
C6_NoPlaceholderInOutput ==
    p_pc = "cleaned"
        => LET kept == SelectSeq(df, IsKept)
           IN /\ Len(df_clean) = Len(kept)
              /\ \A n \in DOMAIN df_clean :
                    /\ df_clean[n].link = kept[n].link
                    /\ df_clean[n].title = TrimmedOf(kept[n].title)
                    /\ df_clean[n].company = TrimmedOf(kept[n].company)
                    /\ df_clean[n].description = TrimmedOf(kept[n].description)
                    /\ TrimmedOf(df_clean[n].description) \notin invalid_descriptions

\* The descriptions extract_skills finds no skill in: not a str, empty, or
\* a sentinel.
EmptyDescriptions == {NaN, <<>>} \cup invalid_descriptions

\* C9: every record of the processed output has skill_count = len(skills),
\* its skills hold no duplicate and stand in ascending lexicographic order;
\* a description that is empty, not text or a sentinel has no skills and
\* skill_count 0.
C9_SkillsSortedUniqueCounted ==
    /\ \A d \in EmptyDescriptions : extract_skills(d) = <<>>
    /\ p_pc = "saved"
          => \A n \in DOMAIN processed_csv :
                LET row == processed_csv[n]
                IN /\ row.skill_count = Len(row.skills)
                   /\ \A a, b \in DOMAIN row.skills :
                         /\ a # b => row.skills[a] # row.skills[b]
                         /\ a < b => StrLess(row.skills[a], row.skills[b])
                   /\ row.description \in EmptyDescriptions
                         => row.skills = <<>> /\ row.skill_count = 0

\* A saved table with a record of two skills and a record whose description
\* is a sentinel.
C9_Witness ==
    /\ p_pc = "saved"
    /\ \E n \in DOMAIN processed_csv : processed_csv[n].skill_count = 2
    /\ \E n \in DOMAIN processed_csv : processed_csv[n].description = NA

----------------------------------------------------------------------------
(* Properties of get_job_info and extract_description.                     *)

\* What get_job_info must hold for a lookup of find_all: the first
\* element's text, trimmed, or the sentinel when the lookup raised or found
\* nothing.
ExpectedFirstText(lookup) ==
    IF lookup.out = "list" /\ lookup.elems # <<>> THEN TrimmedOf(lookup.elems[1]) ELSE NA

\* C7: get_job_info never raises; for every card and every subset of the
\* four lookups that fail or find nothing it returns a record with the five
\* fields title, company, location, link and date_posted, where a field
\* whose lookup failed is "N/A" and a field whose lookup succeeded holds its
\* extracted value, whatever became of the other lookups.
C7_GetJobInfoTotal ==
    c_pc # "call"
        => /\ c_pc = "returned"
           /\ ~c_out.exc
           /\ DOMAIN c_out.data = {"title", "company", "location", "link", "date_posted"}
           /\ IF c_card.title.out = "found"
              THEN /\ c_out.data.title = TrimmedOf(c_card.title.text)
                   /\ c_out.data.link = base_url \o c_card.title.href
              ELSE c_out.data.title = NA /\ c_out.data.link = NA
           /\ c_out.data.company = ExpectedFirstText(c_card.company)
           /\ c_out.data.location = ExpectedFirstText(c_card.location)
           /\ c_out.data.date_posted = ExpectedFirstText(c_card.date)

\* The title and the location lookups raise, the company lookup finds a
\* padded text: the record holds the company, trimmed, beside the sentinels.
C7_Witness ==
    /\ c_pc = "returned"
    /\ c_card.title.out = "raise"
    /\ c_card.location.out = "raise"
    /\ c_card.company.out = "list"
    /\ c_card.company.elems = << <<" ">> \o CompanyText \o <<" ">> >>
    /\ c_out.data.company = CompanyText
    /\ c_out.data.title = NA

\* The call has ended, one way or the other, for a link that is no sentinel.
DescEnded == d_pc \in {"returned", "raised"} /\ d_link # NA

\* The outcome of a strategy is a match: an element whose text, trimmed, is
\* longer than 50 characters.
Qualifies(o) == o.kind = "element" /\ Len(TrimmedOf(o.text)) > 50

\* C3 as claimed: whenever the navigation or an extraction step raises an
\* unexpected exception, the call returns "Error loading description" and
\* no exception reaches the caller.
C3_AnyExceptionGivesErrorSentinel ==
    DescEnded /\ d_seen.exc \in {"navigation", "unexpected"}
        => d_pc = "returned" /\ ~d_raised /\ d_result = ErrorLoadingDescription

\* C3 as amended: no exception reaches the caller; an exception of the
\* navigation makes the call return "Error loading description"; an
\* exception of an extraction step makes that strategy a non-match, and the
\* call returns the text of a later strategy that qualifies or, when none
\* does, "Description not found.".
C3_ExceptionsBecomeData ==
    /\ d_pc # "raised" /\ ~d_raised
    /\ DescEnded /\ d_seen.exc = "navigation" => d_result = ErrorLoadingDescription
    /\ DescEnded /\ d_seen.exc \in {"timeout", "unexpected"}
          => IF Qualifies(d_seen.last)
             THEN d_result = TrimmedOf(d_seen.last.text)
             ELSE d_result = DescriptionNotFound /\ Len(d_seen.tried) = Len(selectors)

\* A strategy raised an unexpected exception and a later one gave the text.
C3_Witness ==
    /\ d_pc = "returned"
    /\ d_seen.exc = "unexpected"
    /\ Qualifies(d_seen.last)
    /\ d_result = TrimmedOf(d_seen.last.text)

\* The order of the strategies the claim gives.
StrategyOrder ==
    << [by |-> "id", selector |-> "jobDescriptionText"],
       [by |-> "class name", selector |-> "jobsearch-jobDescriptionText"],
       [by |-> "class name", selector |-> "job-description"],
       [by |-> "xpath", selector |-> "//div[contains(@class, 'description')]"],
       [by |-> "tag name", selector |-> "body"] >>

\* C10: after the navigation to a link that is no sentinel the strategies
\* are tried in the fixed order; a strategy that times out, fails or yields
\* a text of 50 characters or fewer is a non-match and the next one is
\* tried; the first match ends the call with its text, trimmed, and no later
\* strategy is tried; five non-matches give "Description not found.".
C10_FirstQualifyingStrategyWins ==
    d_link # NA /\ d_pc \in {"select", "returned"} /\ d_seen.exc # "navigation"
        => /\ d_seen.tried = SubSeq(StrategyOrder, 1, Len(d_seen.tried))
           /\ d_pc = "select"
                 => /\ d_k = Len(d_seen.tried) + 1
                    /\ d_seen.tried # <<>> => ~Qualifies(d_seen.last)
           /\ d_pc = "returned"
                 => /\ d_seen.tried # <<>>
                    /\ IF Qualifies(d_seen.last)
                       THEN d_result = TrimmedOf(d_seen.last.text)
                       ELSE /\ d_result = DescriptionNotFound
                            /\ d_seen.tried = StrategyOrder

\* Two non-matches, and the third strategy gives the description: the text
\* of its element, which had blanks around it, trimmed.
C10_Witness ==
    /\ d_pc = "returned"
    /\ Len(d_seen.tried) = 3
    /\ Qualifies(d_seen.last)
    /\ d_seen.last.text # TrimmedOf(d_seen.last.text)
    /\ d_result = Rep("x", 51)

\* Five non-matches.
C10_WitnessNotFound ==
    /\ d_pc = "returned"
    /\ d_seen.tried = StrategyOrder
    /\ d_seen.last.kind = "element"
    /\ Len(TrimmedOf(d_seen.last.text)) = 50
    /\ d_result = DescriptionNotFound

----------------------------------------------------------------------------
(* Properties of scraper.main.                                             *)

Terminated == pc \in {"returned", "raised"}

\* The places of the trace at which ev happened.
EventsOf(ev) == { n \in DOMAIN trace : trace[n].ev = ev }

IsResultsGet(e) == e.ev = "get" /\ e.what = "results"
IsDetailGet(e) == e.ev = "get" /\ e.what = "detail"

\* The card whose link a detail page was navigated to: the two digits the
\* href ends with.
DigitValue(c) == CHOOSE n \in 0..9 : Digits[n + 1] = c
PosOfLink(link) == <<DigitValue(link[Len(link) - 1]), DigitValue(link[Len(link)])>>

\* The positions appended, in the order of the appends.
RECURSIVE AppendedOf(_)
AppendedOf(t) ==
    IF t = <<>> THEN <<>>
    ELSE (IF Head(t).ev = "append" THEN <<Head(t).pos>> ELSE <<>>) \o AppendedOf(Tail(t))

\* C1: whatever fails once the session exists (a navigation, the parsing of
\* a page or of a card, a description fetch, or the teardown itself), the
\* failure does not leave the run, and every listing collected before it is
\* persisted to the raw output table.
C1_NoFailureEscapesAndListingsPersist ==
    /\ pc # "raised"
    /\ Terminated /\ all_jobs # <<>> => raw_csv = all_jobs

\* The same with the teardown left out: a failure of a navigation or of the
\* parsing of a page is caught, and the listings are persisted unless
\* driver.quit() raises.
ListingsPersistUnlessQuitFails ==
    /\ pc = "raised" => trace[Len(trace)].ev = "quit"
    /\ pc = "returned" /\ all_jobs # <<>> => raw_csv = all_jobs

C2_WitnessTimeout ==
    /\ stop = "timeout"
    /\ page = 1
    /\ pc = "returned"
    /\ Len(all_jobs) = 2

\* C4: once the session exists driver.quit() is executed exactly once on
\* every way out of the run (all pages done, an early stop, an exception in
\* the loop), after the last navigation and before the results are saved and
\* the function returns.
C4_QuitOnceOnEveryExit ==
    /\ Cardinality(EventsOf("quit")) = IF pc \in {"save", "returned", "raised"} THEN 1 ELSE 0
    /\ \A q \in EventsOf("quit") :
          /\ \A n \in EventsOf("get") \cup EventsOf("card") \cup EventsOf("append") : n < q
          /\ \A n \in EventsOf("save") : q < n

\* An exception in the loop after a listing was collected, and the run has
\* returned.
C4_Witness ==
    /\ pc = "returned"
    /\ stop = "exception"
    /\ all_jobs # <<>>
    /\ Cardinality(EventsOf("quit")) = 1

\* All pages done.
C4_WitnessAllPages ==
    /\ pc = "returned"
    /\ stop = "none"
    /\ page = max_pages
    /\ Cardinality(EventsOf("quit")) = 1

\* Where an event stands in a run: <<page, card, step>>.
RankOf(e) ==
    CASE IsResultsGet(e) -> <<e.page, 0, 0>>
      [] e.ev = "parsed" -> <<e.page, 0, 1>>
      [] e.ev = "card" -> <<e.pos[1], e.pos[2], 1>>
      [] IsDetailGet(e) -> <<PosOfLink(e.link)[1], PosOfLink(e.link)[2], 2>>
      [] e.ev = "append" -> <<e.pos[1], e.pos[2], 3>>

RankLess(a, b) ==
    \/ a[1] < b[1]
    \/ a[1] = b[1] /\ a[2] < b[2]
    \/ a[1] = b[1] /\ a[2] = b[2] /\ a[3] < b[3]

IsRanked(e) == e.ev \in {"get", "parsed", "card", "append"}

\* The places of the navigations, cards and appends, in the order of the run.
RECURSIVE RanksOf(_)
RanksOf(t) ==
    IF t = <<>> THEN <<>>
    ELSE (IF IsRanked(Head(t)) THEN <<RankOf(Head(t))>> ELSE <<>>) \o RanksOf(Tail(t))

\* C8: the listings stand in the order of the pages and, within a page, of
\* the cards; the description of a card is fetched and its listing appended
\* before the next card of the page is processed and before the next results
\* page is navigated to.
C8_ListingsInPageAndCardOrder ==
    LET ranks == RanksOf(trace)
        appended == AppendedOf(trace)
    IN /\ \A n \in 1..(Len(ranks) - 1) : RankLess(ranks[n], ranks[n + 1])
       /\ Len(all_jobs) = Len(appended)
       /\ \A n \in 1..(Len(appended) - 1) :
             RankLess(appended[n] \o <<0>>, appended[n + 1] \o <<0>>)
       /\ \A n \in DOMAIN all_jobs :
             /\ "description" \in DOMAIN all_jobs[n]
             /\ all_jobs[n].link # NA
                   => /\ all_jobs[n].link = base_url \o HrefOf(appended[n])
                      /\ \E g \in EventsOf("get") :
                            IsDetailGet(trace[g]) /\ trace[g].link = all_jobs[n].link
       /\ \A c \in EventsOf("card") :
             trace[c].pos[2] > 1
                 => \E a \in EventsOf("append") :
                       a < c /\ trace[a].pos = <<trace[c].pos[1], trace[c].pos[2] - 1>>
       /\ \A g \in EventsOf("get") :
             IsResultsGet(trace[g]) /\ trace[g].page > 0
                 => \E p \in EventsOf("parsed") :
                       /\ p < g
                       /\ trace[p].page = trace[g].page - 1
                       /\ \E a \in EventsOf("append") :
                             a < g /\ trace[a].pos = <<trace[p].page, trace[p].n>>

\* Two listings of the first page, both with a link, and one of the second.
C8_Witness ==
    /\ pc = "returned"
    /\ AppendedOf(trace) = << <<0, 1>>, <<0, 2>>, <<1, 1>> >>
    /\ \A n \in DOMAIN all_jobs : all_jobs[n].link # NA

----------------------------------------------------------------------------
(* Properties of the description fetcher as main uses it.                  *)

IsCallOn(e, link) == e = [ev |-> "call", link |-> link]
IsDetailGetOn(e, link) == e = [ev |-> "get", what |-> "detail", link |-> link]

\* The place of the n-th append, and of the card event it belongs to.
AppendAt(n) ==
    CHOOSE a \in EventsOf("append") :
        Cardinality({ b \in EventsOf("append") : b <= a }) = n
CardBefore(a) ==
    CHOOSE c \in EventsOf("card") :
        c < a /\ \A e \in EventsOf("card") : e < a => e <= c

\* What happened between the parsing of the n-th listing's card and its append.
StepsOfListing(n) ==
    LET a == AppendAt(n)
    IN SubSeq(trace, CardBefore(a) + 1, a - 1)

InScrapeRun == pc # "idle"

\* No detail page is navigated to for the sentinel link; a call with the
\* sentinel link has returned the sentinel and issued nothing; a listing
\* without a link took no call and no navigation and holds the sentinel
\* description; a listing with a link took exactly one call, on its link.
NoFetchWithoutLink ==
    /\ \A g \in EventsOf("get") :
          IsDetailGet(trace[g])
              => /\ trace[g].link # NA
                 /\ g > 1
                 /\ IsCallOn(trace[g - 1], trace[g].link)
    /\ \A c \in EventsOf("call") :
          /\ trace[c].link = NA
                => /\ ~InScrapeRun
                   /\ c = Len(trace)
                   /\ d_pc = "returned"
                   /\ d_result = NA
                   /\ ~d_raised
          /\ InScrapeRun => c > 1 /\ trace[c - 1].ev = "card"
    /\ Len(all_jobs) = Cardinality(EventsOf("append"))
    /\ \A n \in DOMAIN all_jobs :
          LET job == all_jobs[n]
              steps == StepsOfListing(n)
          IN /\ "description" \in DOMAIN job
             /\ IF job.link = NA
                THEN job.description = NA /\ steps = <<>>
                ELSE /\ Len(steps) = 2
                     /\ IsCallOn(steps[1], job.link)
                     /\ IsDetailGetOn(steps[2], job.link)

\* The description of a listing with a link is what the call on that link
\* returned; the one of a listing without a link is set with no call made.
DescriptionFromTheCall ==
    /\ pc = "fetch" /\ pc' = "append"
          => /\ d_pc = "returned"
             /\ d_link = job_data.link
             /\ job_data.link # NA
             /\ job_data' = job_data @@ [description |-> d_result]
    /\ pc = "card" /\ pc' = "append"
          => /\ job_data'.link = NA
             /\ job_data'.description = NA
             /\ UNCHANGED descVars
    /\ pc = "append" /\ pc' # "append" => all_jobs' = Append(all_jobs, job_data)

\* C11: in every scrape run no detail page is navigated to for a listing
\* whose link is the sentinel "N/A": the listing gets the description
\* sentinel directly, and extract_description called with the sentinel link
\* returns the sentinel without calling driver.get; every listing with a
\* link has its description produced by exactly one call of
\* extract_description on that link.
C11_SentinelLinkNeverNavigated ==
    []NoFetchWithoutLink /\ [][DescriptionFromTheCall]_vars

\* A finished scrape run with a listing without a link, whose description is
\* the sentinel, and a listing with a link, whose description is page text.
C11_Witness ==
    /\ pc = "returned"
    /\ \E n \in DOMAIN all_jobs :
          all_jobs[n].link = NA /\ all_jobs[n].description = NA
    /\ \E n \in DOMAIN all_jobs :
          /\ all_jobs[n].link # NA
          /\ all_jobs[n].description
                \notin {NA, DescriptionNotFound, ErrorLoadingDescription}

\* extract_description called on its own with the sentinel link.
C11_WitnessSentinelCall ==
    /\ ~InScrapeRun
    /\ d_pc = "returned"
    /\ d_link = NA
    /\ d_result = NA
    /\ trace = <<[ev |-> "call", link |-> NA]>>

====
